---- MODULE Spec2Model ----
(***************************************************************************)
(* State-machine model of splat's WorkQueue (src/src/workqueue.cpp), of    *)
(* the signal-byte conversion of Anf::LoadANO (src/src/anf.cpp), of the    *)
(* tile store, the area sweep and main's start-up, and of the readers      *)
(* Site::LoadQTH, Path::ReadPath, Lrp::ReadLRParm and Udt::LoadUDT.  Each   *)
(* specification runs one of them and holds the others' variables still.   *)
(*                                                                         *)
(* Threads of the WorkQueue model: up to MaxWorkers workers, each running  *)
(* WorkQueue::doWork, and two client threads.  The Owner client holds the  *)
(* queue object: it submits, and it alone calls abort(),                   *)
(* waitForCompletion() and the destructor, one call after another.  The    *)
(* Other client only submits.  Every statement that can block (a mutex     *)
(* acquisition, a condition-variable wait, a thread join) or that touches  *)
(* shared state outside the mutex is a step of its own; statements run     *)
(* back to back under m_mutex form one step.                               *)
(*                                                                         *)
(* The program's variables are changed by the actions only.  The history   *)
(* variables are written by observers (Obs...), which look at a step of    *)
(* the program and record what happened; no action reads them.             *)
(***************************************************************************)
EXTENDS Integers, Sequences, FiniteSets, TLC

\* ------------------------------------------------------------------ bounds
MaxWorkers == 2
MaxJobs == 2
MaxInitWork == 1
\* Reals are fixed-point numbers: the integer x stands for x / Scale.  Data
\* lines carry values from -MaxAno to MaxAno.
Scale == 2
MaxAno == 260
\* The tile store holds tiles 0..MaxTile of one row of latitude, each Ippd
\* cells wide; a run makes up to MaxLoads loads and MaxOps later operations,
\* and a user-defined-terrain file has up to MaxUdt lines.
MaxTile == 1
Ippd == 1
MaxLoads == 2
MaxOps == 2
MaxUdt == 2
MaxTx == 2
\* The command line gives maxpages a value of 0..MaxPages.
MaxPages == 65
\* A site file gives a longitude of -MaxLonRead..MaxLonRead degrees.
MaxLonRead == 360
\* A Path buffer holds 1..MaxPath samples.
MaxPath == 3

Workers == 1..MaxWorkers
Owner == MaxWorkers + 1
Other == MaxWorkers + 2
Clients == {Owner, Other}
Jobs == 1..MaxJobs
Free == 0
NoJob == 0

VARIABLES
    m_exit,            \* std::atomic<bool> m_exit
    m_finish_work,     \* std::atomic<bool> m_finish_work
    m_work,            \* std::deque<std::function<void()>> m_work
    m_workers,         \* m_workers.size()
    m_mutex,           \* the thread holding m_mutex, or Free
    m_signalWaiting,   \* threads blocked in m_signalWaiting.wait
    m_signalWorkDone,  \* threads blocked in m_signalWorkDone.wait
    pcW,               \* position of each worker in doWork
    work,              \* doWork's local `work`: the job a worker took
    pcC,               \* position of each client in the call it is making
    job,               \* submit's parameter `job`
    blocking,          \* submit's parameter `blocking`
    inDtor,            \* ~WorkQueue has been entered
    nextJob,           \* identity of the next job to be created
    \* ---- history (observation only, never read by the program) ----
    taken,             \* jobs popped from m_work by a worker
    started,           \* jobs whose body has begun to execute
    completions,       \* how many times each job's body ran to its end
    returned,          \* jobs whose submit() call has returned
    before,            \* before[j]: jobs whose submit had returned when submit(j) began
    late,              \* jobs whose submit() began after a shutdown call
    mustWait,          \* the client's submit took the backpressure branch
    finishedSince,     \* a job body finished since the client's submit began
    abortCalled,       \* abort() has been called (destructor included)
    wfcCalled,         \* waitForCompletion() has been called
    atWait,            \* jobs whose submit had returned when waitForCompletion() was first called
    wfcReturned,       \* a waitForCompletion() call has returned
    abortReturned,     \* an abort() call has returned
    atAbortRet,        \* [work, started, busy] observed when abort() last returned
    queuedAtDtor,      \* jobs in m_work when ~WorkQueue was entered
    \* ---- Anf::LoadANO ----
    record,            \* the value on the data line of the .ano file (in 1/Scale units)
    good,              \* infile.good(): a data line is still to be processed
    ano,               \* the local double ano of LoadANO (in 1/Scale units)
    erp,               \* lrp.erp
    dbm,               \* sr.dbm
    contour_threshold, \* sr.contour_threshold
    signal             \* the bytes handed to PutSignal, in call order

VARIABLES
    \* ---- ElevationMap (the tile store) of one run of main ----
    maxpages,          \* sr.maxpages: the number of tile slots
    dem,               \* ElevationMap::dem: the loaded tiles, in slot order
    demData,           \* the elevation plane, per cell
    demMask,           \* the mask plane, per cell
    demSignal,         \* the signal plane, per cell
    pcT,               \* the phase of the run: "load", "run", "fatal", or "off"
    loads,             \* LoadTopoData calls made
    ops,               \* operations made in the run phase
    \* ---- history of the tile store ----
    requested,         \* tiles some LoadTopoData call has asked for
    dataAtLoad,        \* the elevation plane as the tiles' files gave it
    lastOp,            \* the last operation: [name, cell, value, ret]
    crossed,           \* per cell, the transmitters whose path crossed it
    \* ---- the area sweep (main's loop over tx_site, PlotLRMap) ----
    mode,              \* "pathloss", "field" or "dbm"; "off" outside a sweep
    tx_site,           \* the transmitters in the order main processes them
    computed,          \* per transmitter and cell: the clamped byte, or NoByte
    txAt,              \* how many transmitters' sweeps have begun
    pending,           \* cells of the current sweep not yet handed to a worker
    running,           \* per worker: the cell of the unit it is executing
    \* ---- the command line and main's start-up ----
    hd_mode,           \* sr.hd_mode
    tx_count,          \* the number of transmitter sites given
    sites_ok,          \* every site was found and a receiver is not missing
    pcM,               \* "start", "checked", "sized", "allocated", "loaded",
                       \* "exited"; "off" when main's start-up is not modelled
    valid,             \* what ValidateCommandLine returned ("true", "false"),
                       \* "none" before the call
    \* ---- Utilities::LonDiff ----
    lon1, lon2,        \* the arguments, in degrees
    diff,              \* the value returned
    pcL,               \* "call", "done"; "off" when LonDiff is not modelled
    \* ---- Site::LoadQTH ----
    hasLine,           \* the file opens and has a longitude line
    line,              \* the value ReadBearing gives for that line
    lon,               \* Site::lon
    pcQ,               \* "start", "loaded"; "off" when no site is modelled
    \* ---- Path::ReadPath ----
    source,            \* the coordinate of the source site
    destination,       \* the coordinate of the destination site
    arraysize,         \* the capacity of the Path buffer
    path,              \* the samples: [at, elevation, distance] each
    pcP,               \* "call", "done"; "off" when no path is modelled
    \* ---- Lrp::ReadLRParm ----
    infile,            \* the .lrp file: [open, lines, dBm]
    forced_read,       \* ReadLRParm's parameter forced_read
    forced_erp,        \* Lrp::forced_erp (in thousandths)
    forced_freq,       \* Lrp::forced_freq (in thousandths)
    lrp,               \* the nine public parameters of the Lrp object
    return_value,      \* what ReadLRParm returned
    loadPat,           \* ReadLRParm's output parameter loadPat
    splat_lrp,         \* ReadLRParm wrote the file "splat.lrp"
    pcR,               \* "call", "done"; "off" when no Lrp is modelled
    \* ---- Udt::LoadUDT ----
    udt_file,          \* the feature lines of the file: [cell, height] each
    added,             \* the AddElevation calls made, in order: [cell, height]
    pcU                \* "call", "done"; "off" when no file is modelled

wqVars == <<m_exit, m_finish_work, m_work, m_workers, m_mutex, m_signalWaiting,
            m_signalWorkDone, pcW, work, pcC, job, blocking, inDtor,
            nextJob>>
runVars == <<taken, started, completions>>
submitVars == <<returned, late>>
orderVars == <<before>>
pressureVars == <<mustWait, finishedSince>>
shutdownVars == <<abortCalled, wfcCalled, atWait, wfcReturned, abortReturned,
                  atAbortRet, queuedAtDtor>>
histVars == <<runVars, submitVars, orderVars, pressureVars, shutdownVars>>
anoVars == <<record, good, ano, erp, dbm, contour_threshold, signal>>
tileVars == <<maxpages, dem, demData, demMask, demSignal, pcT, loads, ops>>
tileHist == <<requested, dataAtLoad, lastOp, crossed>>
\* what a specification of the WorkQueue or of LoadANO leaves alone
sweepVars == <<mode, tx_site, computed, txAt, pending, running>>
cfgVars == <<hd_mode, tx_count, sites_ok, pcM, valid>>
lonVars == <<lon1, lon2, diff, pcL>>
siteVars == <<hasLine, line, lon, pcQ>>
pathVars == <<source, destination, arraysize, path, pcP>>
lrpVars == <<infile, forced_read, forced_erp, forced_freq, lrp, return_value,
             loadPat, splat_lrp, pcR>>
udtVars == <<udt_file, added, pcU>>
fileVars == <<lrpVars, udtVars>>
ioVars == <<pathVars, fileVars>>
restVars == <<tileVars, tileHist, sweepVars, cfgVars, lonVars, siteVars, ioVars>>
vars == <<wqVars, histVars, anoVars, restVars>>

Range(s) == {s[i] : i \in 1..Len(s)}

\* ------------------------------------------------------------ WorkQueue
\* Member initialisers of the class (m_exit{false}, m_finish_work{true}).
InitExit == FALSE
InitFinishWork == TRUE

\* WorkQueue(numWorkers) starts with an empty m_work; WorkQueue(worklist,
\* numWorkers) copies a caller's work list.  Both start numWorkers >= 1
\* threads in doWork.
InitWorkLists == {[i \in 1..n |-> i] : n \in 0..MaxInitWork}

InitWQ ==
    /\ m_exit = InitExit
    /\ m_finish_work = InitFinishWork
    /\ m_work \in InitWorkLists
    /\ m_workers \in 1..MaxWorkers
    /\ m_mutex = Free
    /\ m_signalWaiting = {}
    /\ m_signalWorkDone = {}
    /\ pcW = [w \in Workers |-> IF w <= m_workers THEN "lock" ELSE "none"]
    /\ work = [w \in Workers |-> NoJob]
    /\ pcC = [c \in Clients |-> "idle"]
    /\ job = [c \in Clients |-> NoJob]
    /\ blocking = [c \in Clients |-> FALSE]
    /\ inDtor = FALSE
    /\ nextJob = Len(m_work) + 1

InitHist ==
    /\ taken = {} /\ started = {}
    /\ completions = [j \in Jobs |-> 0]
    /\ returned = {}
    /\ before = [j \in Jobs |-> {}]
    /\ late = {}
    /\ mustWait = [c \in Clients |-> FALSE]
    /\ finishedSince = [c \in Clients |-> FALSE]
    /\ abortCalled = FALSE /\ wfcCalled = FALSE
    /\ atWait = {}
    /\ wfcReturned = FALSE /\ abortReturned = FALSE
    /\ atAbortRet = [work |-> <<>>, started |-> {}, busy |-> {}]
    /\ queuedAtDtor = {}

\* no ANO file is being read
InitANOIdle ==
    /\ record = 0 /\ good = FALSE
    /\ ano = 0 /\ erp = 0 /\ dbm = FALSE /\ contour_threshold = 0
    /\ signal = <<>>

\* no run of main is under way
NoOp == [name |-> "none", cell |-> 0, value |-> 0, ret |-> 0]
InitTileIdle ==
    /\ maxpages = 0 /\ dem = <<>>
    /\ demData = <<>> /\ demMask = <<>> /\ demSignal = <<>>
    /\ pcT = "off" /\ loads = 0 /\ ops = 0
    /\ requested = {} /\ dataAtLoad = <<>> /\ lastOp = NoOp /\ crossed = <<>>
InitSweepIdle ==
    /\ mode = "off" /\ tx_site = <<>> /\ computed = <<>> /\ txAt = 0
    /\ pending = {} /\ running = <<>>
InitCfgIdle ==
    /\ hd_mode = FALSE /\ tx_count = 0 /\ sites_ok = FALSE /\ pcM = "off"
    /\ valid = "none"
InitLonIdle ==
    /\ lon1 = 0 /\ lon2 = 0 /\ diff = 0 /\ pcL = "off"
    /\ hasLine = FALSE /\ line = 0 /\ lon = 0 /\ pcQ = "off"
InitPathIdle ==
    /\ source = 0 /\ destination = 0 /\ arraysize = 0 /\ path = <<>>
    /\ pcP = "off"
InitLrpIdle ==
    /\ infile = [open |-> FALSE, lines |-> 0, dBm |-> FALSE]
    /\ forced_read = 0 /\ forced_erp = 0 /\ forced_freq = 0
    /\ lrp = <<>> /\ return_value = 0 /\ loadPat = FALSE
    /\ splat_lrp = FALSE /\ pcR = "off"
InitUdtIdle ==
    /\ udt_file = <<>> /\ added = <<>> /\ pcU = "off"
InitFileIdle == InitLrpIdle /\ InitUdtIdle
InitIoIdle == InitPathIdle /\ InitFileIdle
InitRestIdle ==
    InitTileIdle /\ InitSweepIdle /\ InitCfgIdle /\ InitLonIdle /\ InitIoIdle

Init == InitWQ /\ InitHist /\ InitANOIdle /\ InitRestIdle

\* The candidates of a notify_one: any one waiter, or nobody when none waits.
NobodyWaits == 0
NoneOf(cv) == {NobodyWaits}
OneOf(cv) == IF cv = {} THEN {NobodyWaits} ELSE cv

\* ---- WorkQueue::doWork --------------------------------------------------
\* std::unique_lock<std::mutex> ul(m_mutex)
doWorkLock(w) ==
    /\ pcW[w] = "lock"
    /\ m_mutex = Free
    /\ m_mutex' = w
    /\ pcW' = [pcW EXCEPT ![w] = "loop"]
    /\ UNCHANGED <<m_exit, m_finish_work, m_work, m_workers, m_signalWaiting,
                   m_signalWorkDone, work, pcC, job, blocking, inDtor,
                   nextJob>>

\* while (! m_exit || (m_finish_work && ! m_work.empty()))
LoopCondDrainless == ~m_exit
LoopCond == ~m_exit \/ (m_finish_work /\ m_work # <<>>)

doWorkLoop(w) ==
    /\ pcW[w] = "loop"
    /\ IF LoopCond
         THEN /\ pcW' = [pcW EXCEPT ![w] = "body"]
              /\ UNCHANGED m_mutex
         ELSE /\ pcW' = [pcW EXCEPT ![w] = "exited"]
              /\ m_mutex' = Free
    /\ UNCHANGED <<m_exit, m_finish_work, m_work, m_workers, m_signalWaiting,
                   m_signalWorkDone, work, pcC, job, blocking, inDtor,
                   nextJob>>

\* m_work.front() / m_work.pop_front(): the position a worker takes from
FrontNewest(q) == Len(q)
Front(q) == 1
TakeAt(q, i) == q[i]
WithoutAt(q, i) == SubSeq(q, 1, i - 1) \o SubSeq(q, i + 1, Len(q))

\* the holder of m_mutex after ul.unlock()
HolderKept(w) == w
HolderAfterUnlock(w) == Free

\* if (! m_work.empty()) { work = move(front); pop_front(); ul.unlock(); ... }
\* else m_signalWaiting.wait(ul)
doWorkBody(w) ==
    /\ pcW[w] = "body"
    /\ IF m_work # <<>>
         THEN /\ work' = [work EXCEPT ![w] = TakeAt(m_work, Front(m_work))]
              /\ m_work' = WithoutAt(m_work, Front(m_work))
              /\ m_mutex' = HolderAfterUnlock(w)
              /\ pcW' = [pcW EXCEPT ![w] = "popped"]
              /\ UNCHANGED m_signalWaiting
         ELSE /\ m_signalWaiting' = m_signalWaiting \cup {w}
              /\ m_mutex' = Free
              /\ pcW' = [pcW EXCEPT ![w] = "wait"]
              /\ UNCHANGED <<work, m_work>>
    /\ UNCHANGED <<m_exit, m_finish_work, m_workers, m_signalWorkDone, pcC, job,
                   blocking, inDtor, nextJob>>

\* work(): the call enters the job's body
doWorkCall(w) ==
    /\ pcW[w] = "popped"
    /\ pcW' = [pcW EXCEPT ![w] = "work"]
    /\ UNCHANGED <<m_exit, m_finish_work, m_work, m_workers, m_mutex,
                   m_signalWaiting, m_signalWorkDone, work, pcC, job, blocking,
                   inDtor, nextJob>>

\* work() returns: the job's body has run to its end
doWorkReturn(w) ==
    /\ pcW[w] = "work"
    /\ pcW' = [pcW EXCEPT ![w] = "relock"]
    /\ UNCHANGED <<m_exit, m_finish_work, m_work, m_workers, m_mutex,
                   m_signalWaiting, m_signalWorkDone, work, pcC, job, blocking,
                   inDtor, nextJob>>

\* ul.lock(); m_signalWorkDone.notify_one();
doWorkDone(w) ==
    /\ pcW[w] = "relock"
    /\ m_mutex = Free
    /\ m_mutex' = w
    /\ \E t \in OneOf(m_signalWorkDone) :
         /\ m_signalWorkDone' = m_signalWorkDone \ {t}
         /\ pcC' = [c \in Clients |-> IF c = t THEN "s_woken" ELSE pcC[c]]
    /\ pcW' = [pcW EXCEPT ![w] = "loop"]
    /\ work' = [work EXCEPT ![w] = NoJob]
    /\ UNCHANGED <<m_exit, m_finish_work, m_work, m_workers, m_signalWaiting,
                   job, blocking, inDtor, nextJob>>

\* m_signalWaiting.wait(ul) returns: the woken worker re-acquires m_mutex
doWorkWake(w) ==
    /\ pcW[w] = "woken"
    /\ m_mutex = Free
    /\ m_mutex' = w
    /\ pcW' = [pcW EXCEPT ![w] = "loop"]
    /\ UNCHANGED <<m_exit, m_finish_work, m_work, m_workers, m_signalWaiting,
                   m_signalWorkDone, work, pcC, job, blocking, inDtor,
                   nextJob>>

\* std::condition_variable::wait may return without a notification
spuriousWakeWorker(w) ==
    /\ w \in m_signalWaiting
    /\ m_signalWaiting' = m_signalWaiting \ {w}
    /\ pcW' = [pcW EXCEPT ![w] = "woken"]
    /\ UNCHANGED <<m_exit, m_finish_work, m_work, m_workers, m_mutex,
                   m_signalWorkDone, work, pcC, job, blocking, inDtor,
                   nextJob>>

spuriousWakeSubmit(c) ==
    /\ c \in m_signalWorkDone
    /\ m_signalWorkDone' = m_signalWorkDone \ {c}
    /\ pcC' = [pcC EXCEPT ![c] = "s_woken"]
    /\ UNCHANGED <<m_exit, m_finish_work, m_work, m_workers, m_mutex,
                   m_signalWaiting, pcW, work, job, blocking, inDtor,
                   nextJob>>

\* ---- WorkQueue::submit --------------------------------------------------
\* a client calls submit(job, blocking) on a live queue
submitCall(c, b) ==
    /\ pcC[c] = "idle"
    /\ ~inDtor
    /\ nextJob <= MaxJobs
    /\ pcC' = [pcC EXCEPT ![c] = "s_lock"]
    /\ job' = [job EXCEPT ![c] = nextJob]
    /\ blocking' = [blocking EXCEPT ![c] = b]
    /\ nextJob' = nextJob + 1
    /\ UNCHANGED <<m_exit, m_finish_work, m_work, m_workers, m_mutex,
                   m_signalWaiting, m_signalWorkDone, pcW, work, inDtor>>

\* std::unique_lock<std::mutex> ul(m_mutex)
submitLock(c) ==
    /\ pcC[c] = "s_lock"
    /\ m_mutex = Free
    /\ m_mutex' = c
    /\ pcC' = [pcC EXCEPT ![c] = "s_check"]
    /\ UNCHANGED <<m_exit, m_finish_work, m_work, m_workers, m_signalWaiting,
                   m_signalWorkDone, pcW, work, job, blocking, inDtor,
                   nextJob>>

\* if (m_exit || ! m_finish_work) return;
RefusedUnlessAborting == ~m_finish_work
Refused == m_exit \/ ~m_finish_work

\* if (blocking && (m_work.size() >= m_workers.size())) wait
MustBlock(c) == blocking[c] /\ Len(m_work) >= m_workers

submitCheck(c) ==
    /\ pcC[c] = "s_check"
    /\ IF Refused
         THEN /\ pcC' = [pcC EXCEPT ![c] = "idle"]
              /\ m_mutex' = Free
              /\ job' = [job EXCEPT ![c] = NoJob]
              /\ blocking' = [blocking EXCEPT ![c] = FALSE]
              /\ UNCHANGED m_signalWorkDone
         ELSE IF MustBlock(c)
                THEN /\ m_signalWorkDone' = m_signalWorkDone \cup {c}
                     /\ m_mutex' = Free
                     /\ pcC' = [pcC EXCEPT ![c] = "s_wait"]
                     /\ UNCHANGED <<job, blocking>>
                ELSE /\ pcC' = [pcC EXCEPT ![c] = "s_add"]
                     /\ UNCHANGED <<m_mutex, m_signalWorkDone, job, blocking>>
    /\ UNCHANGED <<m_exit, m_finish_work, m_work, m_workers, m_signalWaiting,
                   pcW, work, inDtor, nextJob>>

\* m_signalWorkDone.wait(ul) returns: the woken submitter re-acquires m_mutex
submitWake(c) ==
    /\ pcC[c] = "s_woken"
    /\ m_mutex = Free
    /\ m_mutex' = c
    /\ pcC' = [pcC EXCEPT ![c] = "s_add"]
    /\ UNCHANGED <<m_exit, m_finish_work, m_work, m_workers, m_signalWaiting,
                   m_signalWorkDone, pcW, work, job, blocking, inDtor,
                   nextJob>>

\* m_work.emplace_back(job); m_signalWaiting.notify_one(); return (unlocks)
submitAdd(c) ==
    /\ pcC[c] = "s_add"
    /\ m_work' = Append(m_work, job[c])
    /\ \E t \in OneOf(m_signalWaiting) :
         /\ m_signalWaiting' = m_signalWaiting \ {t}
         /\ pcW' = [w \in Workers |-> IF w = t THEN "woken" ELSE pcW[w]]
    /\ m_mutex' = Free
    /\ pcC' = [pcC EXCEPT ![c] = "idle"]
    /\ job' = [job EXCEPT ![c] = NoJob]
    /\ blocking' = [blocking EXCEPT ![c] = FALSE]
    /\ UNCHANGED <<m_exit, m_finish_work, m_workers, m_signalWorkDone, work,
                   inDtor, nextJob>>

\* ---- WorkQueue::abort, ~WorkQueue ----------------------------------------
\* abort() is entered (dtor: from ~WorkQueue, once every other caller has
\* left the object): m_exit = true
abortCall(dtor) ==
    /\ pcC[Owner] = "idle"
    /\ ~inDtor
    /\ dtor => pcC[Other] = "idle"
    /\ m_exit' = TRUE
    /\ pcC' = [pcC EXCEPT ![Owner] = "a_finish"]
    /\ inDtor' = dtor
    /\ UNCHANGED <<m_finish_work, m_work, m_workers, m_mutex, m_signalWaiting,
                   m_signalWorkDone, pcW, work, job, blocking, nextJob>>

\* m_finish_work = false
abortFinish ==
    /\ pcC[Owner] = "a_finish"
    /\ m_finish_work' = FALSE
    /\ pcC' = [pcC EXCEPT ![Owner] = "a_notify"]
    /\ UNCHANGED <<m_exit, m_work, m_workers, m_mutex, m_signalWaiting,
                   m_signalWorkDone, pcW, work, job, blocking, inDtor,
                   nextJob>>

\* m_signalWaiting.notify_all(), in abort() and in waitForCompletion()
notifyAll(from, to) ==
    /\ pcC[Owner] = from
    /\ pcW' = [w \in Workers |-> IF w \in m_signalWaiting THEN "woken" ELSE pcW[w]]
    /\ m_signalWaiting' = {}
    /\ pcC' = [pcC EXCEPT ![Owner] = to]
    /\ UNCHANGED <<m_exit, m_finish_work, m_work, m_workers, m_mutex,
                   m_signalWorkDone, work, job, blocking, inDtor, nextJob>>

abortNotify == notifyAll("a_notify", "a_join")

\* ---- WorkQueue::joinAll --------------------------------------------------
\* thread.join() returns once that thread has left doWork
NoJoin(w) == TRUE
Joined(w) == pcW[w] = "exited"

\* for (auto &thread : m_workers) thread.join();  m_workers.clear();
\* m_work.clear();  then back in the caller: abort() goes on to its locked
\* clear, waitForCompletion() returns
joinAllKeepsWorkers ==
    /\ pcC[Owner] \in {"a_join", "w_join"}
    /\ \A w \in 1..m_workers : Joined(w)
    /\ m_work' = <<>>
    /\ pcC' = [pcC EXCEPT ![Owner] = IF @ = "a_join" THEN "a_clear" ELSE "idle"]
    /\ UNCHANGED <<m_exit, m_finish_work, m_workers, m_mutex, m_signalWaiting,
                   m_signalWorkDone, pcW, work, job, blocking, inDtor,
                   nextJob>>
joinAll ==
    /\ pcC[Owner] \in {"a_join", "w_join"}
    /\ \A w \in 1..m_workers : Joined(w)
    /\ m_workers' = 0
    /\ m_work' = <<>>
    /\ pcC' = [pcC EXCEPT ![Owner] = IF @ = "a_join" THEN "a_clear" ELSE "idle"]
    /\ UNCHANGED <<m_exit, m_finish_work, m_mutex, m_signalWaiting,
                   m_signalWorkDone, pcW, work, job, blocking, inDtor,
                   nextJob>>

\* { std::lock_guard<std::mutex> lg(m_mutex); m_work.clear(); }  return
abortClear ==
    /\ pcC[Owner] = "a_clear"
    /\ m_mutex = Free
    /\ m_work' = <<>>
    /\ pcC' = [pcC EXCEPT ![Owner] = IF inDtor THEN "destroyed" ELSE "idle"]
    /\ UNCHANGED <<m_exit, m_finish_work, m_workers, m_mutex, m_signalWaiting,
                   m_signalWorkDone, pcW, work, job, blocking, inDtor,
                   nextJob>>

\* ---- WorkQueue::waitForCompletion ---------------------------------------
\* waitForCompletion() is entered: m_exit = true
wfcCall ==
    /\ pcC[Owner] = "idle"
    /\ ~inDtor
    /\ m_exit' = TRUE
    /\ pcC' = [pcC EXCEPT ![Owner] = "w_finish"]
    /\ UNCHANGED <<m_finish_work, m_work, m_workers, m_mutex, m_signalWaiting,
                   m_signalWorkDone, pcW, work, job, blocking, inDtor, nextJob>>

\* m_finish_work = true
wfcFinish ==
    /\ pcC[Owner] = "w_finish"
    /\ m_finish_work' = TRUE
    /\ pcC' = [pcC EXCEPT ![Owner] = "w_notify"]
    /\ UNCHANGED <<m_exit, m_work, m_workers, m_mutex, m_signalWaiting,
                   m_signalWorkDone, pcW, work, job, blocking, inDtor,
                   nextJob>>

wfcNotify == notifyAll("w_notify", "w_join")

\* ---- the threads ----------------------------------------------------------
doWork(w) ==
    \/ doWorkLock(w)
    \/ doWorkLoop(w)
    \/ doWorkBody(w)
    \/ doWorkCall(w)
    \/ doWorkReturn(w)
    \/ doWorkDone(w)
    \/ doWorkWake(w)

submit(c) ==
    \/ submitLock(c)
    \/ submitCheck(c)
    \/ submitWake(c)
    \/ submitAdd(c)

abort == abortFinish \/ abortNotify \/ joinAll \/ abortClear

waitForCompletion == wfcFinish \/ wfcNotify \/ joinAll

Step ==
    \/ \E w \in Workers : doWorkLock(w)
    \/ \E w \in Workers : doWorkLoop(w)
    \/ \E w \in Workers : doWorkBody(w)
    \/ \E w \in Workers : doWorkCall(w)
    \/ \E w \in Workers : doWorkReturn(w)
    \/ \E w \in Workers : doWorkDone(w)
    \/ \E w \in Workers : doWorkWake(w)
    \/ \E w \in Workers : spuriousWakeWorker(w)
    \/ \E c \in Clients : spuriousWakeSubmit(c)
    \/ \E c \in Clients, b \in BOOLEAN : submitCall(c, b)
    \/ \E c \in Clients : submitLock(c)
    \/ \E c \in Clients : submitCheck(c)
    \/ \E c \in Clients : submitWake(c)
    \/ \E c \in Clients : submitAdd(c)
    \/ \E d \in BOOLEAN : abortCall(d)
    \/ abortFinish
    \/ abortNotify
    \/ joinAll
    \/ abortClear
    \/ wfcCall
    \/ wfcFinish
    \/ wfcNotify

\* ---- observers -----------------------------------------------------------
\* What a step of the program did, read off the positions before and after.
Popped == {w \in Workers : pcW[w] = "body" /\ pcW'[w] = "popped"}
Entered == {w \in Workers : pcW[w] = "popped" /\ pcW'[w] = "work"}
Finished == {w \in Workers : pcW[w] = "work" /\ pcW'[w] = "relock"}
Calling == {c \in Clients : pcC[c] = "idle" /\ pcC'[c] = "s_lock"}
Returning == {c \in Clients : pcC[c] \in {"s_check", "s_add"} /\ pcC'[c] = "idle"}
Blocking == {c \in Clients : pcC[c] = "s_check" /\ pcC'[c] = "s_wait"}
AbortEnters == pcC[Owner] = "idle" /\ pcC'[Owner] = "a_finish"
WfcEnters == pcC[Owner] = "idle" /\ pcC'[Owner] = "w_finish"
AbortReturns == pcC[Owner] = "a_clear" /\ pcC'[Owner] # "a_clear"
WfcReturns == pcC[Owner] = "w_join" /\ pcC'[Owner] = "idle"
Busy == {w \in Workers : pcW[w] \in {"popped", "work"}}

ObsRuns ==
    /\ taken' = taken \cup {work'[w] : w \in Popped}
    /\ started' = started \cup {work[w] : w \in Entered}
    /\ completions' = [j \in Jobs |->
          completions[j] + Cardinality({w \in Finished : work[w] = j})]

ObsSubmit ==
    /\ returned' = returned \cup {job[c] : c \in Returning}
    /\ late' = late \cup {job'[c] : c \in {d \in Calling : m_exit}}

ObsOrder ==
    before' = [j \in Jobs |->
                 IF j \in {job'[c] : c \in Calling} THEN returned ELSE before[j]]

ObsPressure ==
    /\ mustWait' = [c \in Clients |->
          IF c \in Calling THEN FALSE ELSE mustWait[c] \/ c \in Blocking]
    /\ finishedSince' = [c \in Clients |->
          IF c \in Calling THEN FALSE ELSE finishedSince[c] \/ Finished # {}]

ObsShutdown ==
    /\ abortCalled' = (abortCalled \/ AbortEnters)
    /\ wfcCalled' = (wfcCalled \/ WfcEnters)
    /\ atWait' = IF WfcEnters /\ ~wfcCalled /\ ~abortCalled THEN returned ELSE atWait
    /\ wfcReturned' = (wfcReturned \/ WfcReturns)
    /\ abortReturned' = (abortReturned \/ AbortReturns)
    /\ atAbortRet' = IF AbortReturns
                       THEN [work |-> m_work', started |-> started, busy |-> Busy]
                       ELSE atAbortRet
    /\ queuedAtDtor' = IF AbortEnters /\ inDtor' THEN Range(m_work) ELSE queuedAtDtor

\* ---------------------------------------------------------- Anf::LoadANO
\* The loop body of LoadANO for one data line: three blocks, one per mode,
\* each of which filters by the contour threshold, transforms ano in place,
\* clamps it and hands the byte to ElevationMap::PutSignal.

Values == (-MaxAno * Scale)..(MaxAno * Scale)
ErpValues == {0, 1}
Thresholds == {-120, 0, 100}

\* A file with one data line, read before the loop is entered.
InitANO ==
    /\ record \in Values /\ good = TRUE
    /\ ano = record
    /\ erp \in ErpValues /\ dbm \in BOOLEAN
    /\ contour_threshold \in Thresholds
    /\ signal = <<>>

fabs(x) == IF x < 0 THEN -x ELSE x

\* rint() in the default rounding mode: to nearest, ties to even.
rint(x) ==
    LET q == x \div Scale
        r == x % Scale
    IN  IF 2 * r < Scale THEN q
        ELSE IF 2 * r > Scale THEN q + 1
        ELSE IF q % 2 = 0 THEN q ELSE q + 1

\* round(): to nearest, ties away from zero.
round(x) ==
    LET q == x \div Scale
        r == x % Scale
    IN  IF 2 * r < Scale THEN q
        ELSE IF 2 * r > Scale THEN q + 1
        ELSE IF x < 0 THEN q ELSE q + 1

NoUpperClamp(a) == a
ClampHigh(a) == IF a > 255 * Scale THEN 255 * Scale ELSE a
ClampLow(a) == IF a < 0 THEN 0 ELSE a

\* (unsigned char) of an integer-valued double.  LoadANO only converts
\* values in 0..255; outside that range the conversion keeps the low byte.
ToUChar(n) == n % 256

Passes(a) == contour_threshold = 0 \/ a >= contour_threshold * Scale

\* Each block yields the new ano and the bytes it puts.
PathLoss(a) ==
    IF erp = 0 /\ (contour_threshold = 0 \/ fabs(a) <= contour_threshold * Scale)
    THEN LET b == ClampHigh(fabs(a))
         IN  [ano |-> b, put |-> <<ToUChar(round(b))>>]
    ELSE [ano |-> a, put |-> <<>>]

PowerDbm(a) ==
    IF erp # 0 /\ dbm /\ Passes(a)
    THEN LET b == ClampHigh(ClampLow((200 + rint(a)) * Scale))
         IN  [ano |-> b, put |-> <<ToUChar(round(b))>>]
    ELSE [ano |-> a, put |-> <<>>]

FieldStrength(a) ==
    IF erp # 0 /\ ~dbm /\ Passes(a)
    THEN LET b == ClampHigh(ClampLow((100 + rint(a)) * Scale))
         IN  [ano |-> b, put |-> <<ToUChar(round(b))>>]
    ELSE [ano |-> a, put |-> <<>>]

\* One pass of the while loop; the getline at its end finds no further line,
\* so ano keeps its value and infile.good() turns false.
LoadANO ==
    /\ good
    /\ LET p == PathLoss(ano)
           d == PowerDbm(p.ano)
           f == FieldStrength(d.ano)
       IN  /\ ano' = f.ano
           /\ signal' = signal \o p.put \o d.put \o f.put
    /\ good' = FALSE
    /\ UNCHANGED <<record, erp, dbm, contour_threshold>>

NextANO == LoadANO /\ UNCHANGED <<wqVars, histVars, restVars>>
\* LoadANO runs beside a queue that nobody uses.
InitLoad == InitWQ /\ InitHist /\ InitANO /\ InitRestIdle
ANOSpec == InitLoad /\ [][NextANO]_vars

\* ------------------------------------------------- ElevationMap, Sdf, Udt
\* One run of main on a one-row world: a coordinate is a cell number, cell c
\* lies in tile c \div Ippd, and the last tile of the world has no file.
Tiles == 0..MaxTile
Cells == 0..((MaxTile + 1) * Ippd - 1)
Coords == 0..((MaxTile + 1) * Ippd)
TileOf(c) == c \div Ippd
CellsOf(t) == {c \in Cells : TileOf(c) = t}

PageChoices == {1, 4}
NoData == -9999
SdfHeight == 100
UdtHeight == 5

InitTile ==
    /\ maxpages \in PageChoices /\ dem = <<>>
    /\ demData = [c \in Cells |-> NoData]
    /\ demMask = [c \in Cells |-> 0]
    /\ demSignal = [c \in Cells |-> 0]
    /\ pcT = "load" /\ loads = 0 /\ ops = 0
    /\ requested = {} /\ dataAtLoad = [c \in Cells |-> NoData] /\ lastOp = NoOp
    /\ crossed = [c \in Cells |-> {}]

\* ElevationMap::FindDEM: the slot of the loaded tile holding the
\* coordinate, 0 when no loaded tile holds it
NotFound == 0
FindDEM(d, c) ==
    IF \E i \in 1..Len(d) : d[i] = TileOf(c)
    THEN CHOOSE i \in 1..Len(d) : d[i] = TileOf(c)
    ELSE NotFound

\* Sdf::FindEmptyDem: a tile that is loaded already needs no slot (0), a
\* new tile takes the next free slot, and without a free slot there is none
Reload == 0
NoSlot == -1
FreeSlotAlways(d, t) ==
    IF \E i \in 1..Len(d) : d[i] = t THEN Reload ELSE Len(d) + 1
FreeSlotForAny(d, t) ==
    IF Len(d) < maxpages THEN Len(d) + 1 ELSE NoSlot
FindEmptyDem(d, t) ==
    IF \E i \in 1..Len(d) : d[i] = t THEN Reload
    ELSE IF Len(d) < maxpages THEN Len(d) + 1
    ELSE NoSlot

\* Sdf::LoadSDF on the store st = [dem, data, fatal]: returns the store
\* after the call and the value returned (1 loaded, 0 already loaded)
LoadSDF(st, t) ==
    LET slot == FindEmptyDem(st.dem, t)
    IN  IF st.fatal THEN [st |-> st, ret |-> 0]
        ELSE IF slot = Reload THEN [st |-> st, ret |-> 0]
        ELSE IF slot = NoSlot
             THEN [st |-> [st EXCEPT !.fatal = TRUE], ret |-> 0]
        ELSE [st |-> [st EXCEPT !.dem = Append(@, t),
                                !.data = [c \in Cells |->
                                    IF TileOf(c) = t THEN SdfHeight ELSE @[c]]],
              ret |-> 1]

\* ElevationMap::LoadTopoData: LoadSDF for every tile from lo to hi
RECURSIVE LoadRange(_, _, _)
LoadRange(st, lo, hi) ==
    IF lo > hi THEN st ELSE LoadRange(LoadSDF(st, lo).st, lo + 1, hi)

Store == [dem |-> dem, data |-> demData, fatal |-> FALSE]

Loaded(st, name, lo, hi, ret) ==
    /\ dem' = st.dem
    /\ demData' = st.data
    /\ pcT' = IF st.fatal THEN "fatal" ELSE "load"
    /\ loads' = loads + 1
    /\ requested' = requested \cup (lo..hi)
    /\ dataAtLoad' = [c \in Cells |->
           IF demData[c] = NoData THEN st.data[c] ELSE dataAtLoad[c]]
    /\ lastOp' = [name |-> name, cell |-> lo, value |-> hi, ret |-> ret]
    /\ UNCHANGED <<maxpages, demMask, demSignal, ops, crossed>>

LoadTopoData(lo, hi) ==
    /\ pcT = "load" /\ loads < MaxLoads
    /\ Loaded(LoadRange(Store, lo, hi), "LoadTopoData", lo, hi, 0)

\* a direct call of Sdf::LoadSDF for one tile
LoadSDFCall(t) ==
    /\ pcT = "load" /\ loads < MaxLoads
    /\ Loaded(LoadSDF(Store, t).st, "LoadSDF", t, t, LoadSDF(Store, t).ret)

\* ElevationMap::AddElevation: a user-defined terrain feature is added to
\* the ground elevation of its cell; nothing happens outside the loaded tiles
SetElevation(data, c, h) ==
    IF FindDEM(dem, c) = NotFound THEN data
    ELSE [data EXCEPT ![c] = h]
AddElevation(data, c, h) ==
    IF FindDEM(dem, c) = NotFound THEN data
    ELSE [data EXCEPT ![c] = @ + h]

\* Udt::LoadUDT on the lines left in the temporary file (those with a
\* positive height): the loop hands line i to AddElevation when a further
\* line follows it and no line after it, the last one excepted, names the
\* same pixel
UdtLines == [pix : Coords, height : {UdtHeight}]
UdtFiles == UNION {[1..n -> UdtLines] : n \in 0..MaxUdt}
Unique(file, i) ==
    /\ i < Len(file)
    /\ ~\E j \in (i + 1)..(Len(file) - 1) : file[j].pix = file[i].pix

RECURSIVE AddLines(_, _, _)
AddLines(data, file, i) ==
    IF i > Len(file) THEN data
    ELSE AddLines(IF Unique(file, i)
                    THEN AddElevation(data, file[i].pix, file[i].height)
                    ELSE data,
                  file, i + 1)

\* main: the loads are over; LoadUDT runs when a file is named (an empty
\* file stands for none), and the run goes on to its operations
LoadUDT(file) ==
    /\ pcT = "load" /\ loads >= 1
    /\ demData' = AddLines(demData, file, 1)
    /\ pcT' = "run"
    /\ lastOp' = [name |-> "LoadUDT", cell |-> 0, value |-> 0, ret |-> 0]
    /\ UNCHANGED <<maxpages, dem, demMask, demSignal, loads, ops, requested,
                   dataAtLoad, crossed>>

\* ---- the mask and signal planes ----
\* a | b on non-negative ints
RECURSIVE BitOr(_, _)
BitOr(a, b) ==
    IF a = 0 THEN b
    ELSE IF b = 0 THEN a
    ELSE (IF a % 2 = 1 \/ b % 2 = 1 THEN 1 ELSE 0) + 2 * BitOr(a \div 2, b \div 2)

RECURSIVE BitAnd(_, _)
BitAnd(a, b) ==
    IF a = 0 \/ b = 0 THEN 0
    ELSE (IF a % 2 = 1 /\ b % 2 = 1 THEN 1 ELSE 0) + 2 * BitAnd(a \div 2, b \div 2)

\* the write of a mask value into a cell that holds old
Overwrite(old, value) == value
Merge(old, value) == BitOr(old, value)

\* ElevationMap::PutMask / OrMask on a mask plane
MaskWriteAnywhere(mask, c, value) ==
    IF c \in DOMAIN mask THEN [mask EXCEPT ![c] = Merge(@, value)] ELSE mask
MaskWrite(mask, c, value) ==
    IF FindDEM(dem, c) = NotFound THEN mask
    ELSE [mask EXCEPT ![c] = Merge(@, value)]

\* ElevationMap::PutSignal on a signal plane
SignalWrite(sig, c, byte) ==
    IF FindDEM(dem, c) = NotFound THEN sig
    ELSE [sig EXCEPT ![c] = byte]

Found(c) == IF FindDEM(dem, c) = NotFound THEN 0 ELSE 1

\* an operation of the run phase took place
Ran(name, c, value) ==
    /\ pcT = "run" /\ ops < MaxOps
    /\ ops' = ops + 1
    /\ lastOp' = [name |-> name, cell |-> c, value |-> value, ret |-> Found(c)]
    /\ UNCHANGED <<maxpages, dem, demData, pcT, loads, requested, dataAtLoad>>

MaskInputs == {1, 4}
SignalInputs == {1, 200}

PutMask(c, value) ==
    /\ Ran("PutMask", c, value)
    /\ demMask' = MaskWrite(demMask, c, value)
    /\ UNCHANGED <<demSignal, crossed>>

OrMask(c, value) ==
    /\ Ran("OrMask", c, value)
    /\ demMask' = MaskWrite(demMask, c, value)
    /\ UNCHANGED <<demSignal, crossed>>

PutSignal(c, byte) ==
    /\ Ran("PutSignal", c, byte)
    /\ demSignal' = SignalWrite(demSignal, c, byte)
    /\ UNCHANGED <<demMask, crossed>>

\* ElevationMap::PlaceMarker: the site marker bit at the site's cell
MarkerBit == 2
PlaceMarker(c) ==
    /\ Ran("PlaceMarker", c, MarkerBit)
    /\ demMask' = MaskWrite(demMask, c, MarkerBit)
    /\ UNCHANGED <<demSignal, crossed>>

\* main: the mask value of transmitter x's path (x = 0..3)
TxSites == 0..3
SharedPathMask(x) == 1
PathMask(x) == CASE x = 0 -> 1 [] x = 1 -> 8 [] x = 2 -> 16 [] OTHER -> 32

\* ElevationMap::PlotPath: the mask value is merged into every cell from
\* the source to the destination
Between(a, b) == {c \in Coords : (a <= c /\ c <= b) \/ (b <= c /\ c <= a)}
RECURSIVE MaskCells(_, _, _)
MaskCells(mask, cells, value) ==
    IF cells = {} THEN mask
    ELSE LET c == CHOOSE k \in cells : TRUE
         IN  MaskCells(MaskWrite(mask, c, value), cells \ {c}, value)

PlotPath(src, dst, x) ==
    /\ Ran("PlotPath", src, PathMask(x))
    /\ demMask' = MaskCells(demMask, Between(src, dst), PathMask(x))
    /\ crossed' = [c \in Cells |-> IF c \in Between(src, dst) /\ Found(c) = 1
                                  THEN crossed[c] \cup {x} ELSE crossed[c]]
    /\ UNCHANGED demSignal

NextTile ==
    \/ \E lo \in Tiles, hi \in Tiles : lo <= hi /\ LoadTopoData(lo, hi)
    \/ \E t \in Tiles : LoadSDFCall(t)
    \/ \E file \in UdtFiles : LoadUDT(file)
    \/ \E c \in Coords, v \in MaskInputs : PutMask(c, v)
    \/ \E c \in Coords, v \in MaskInputs : OrMask(c, v)
    \/ \E c \in Coords, b \in SignalInputs : PutSignal(c, b)
    \/ \E c \in Coords : PlaceMarker(c)
    \/ \E s \in Coords, d \in Coords, x \in TxSites : PlotPath(s, d, x)

InitStore ==
    /\ InitWQ /\ InitHist /\ InitANOIdle /\ InitTile /\ InitSweepIdle
    /\ InitCfgIdle /\ InitLonIdle /\ InitIoIdle
TileSpec ==
    InitStore /\ [][NextTile /\ UNCHANGED <<wqVars, histVars, anoVars, sweepVars,
                                          cfgVars, lonVars, siteVars, ioVars>>]_vars


\* ------------------------------------------------------------------ C11
MaskOps == {"PutMask", "OrMask", "PlaceMarker", "PlotPath"}
Has(mask, bits) == BitAnd(mask, bits) = bits

Tx == 1..MaxTx
SweepWorkers == 1..MaxWorkers
SweepModes == {"pathloss", "field", "dbm"}
NoByte == -1
Idle == -1
SweepBytes == {1, 200}
Orders == {o \in [1..MaxTx -> Tx] : \A i \in 1..MaxTx, j \in 1..MaxTx : o[i] = o[j] => i = j}
AllTiles == [i \in 1..(MaxTile + 1) |-> i - 1]

InitSweep ==
    /\ maxpages = 4
    /\ dem = AllTiles
    /\ demData = [c \in Cells |-> SdfHeight]
    /\ demMask = [c \in Cells |-> 0]
    /\ demSignal = [c \in Cells |-> 0]
    /\ pcT = "sweep" /\ loads = 0 /\ ops = 0
    /\ requested = {} /\ dataAtLoad = [c \in Cells |-> SdfHeight] /\ lastOp = NoOp
    /\ crossed = [c \in Cells |-> {}]
    /\ mode \in SweepModes
    /\ tx_site \in Orders
    /\ computed \in [Tx -> [Cells -> SweepBytes \cup {NoByte}]]
    /\ txAt = 0
    /\ pending = {}
    /\ running = [w \in SweepWorkers |-> Idle]

\* the combining rule of the write-back: the stronger byte stays
KeepLatest(m, old, byte) == byte
Combine(m, old, byte) == IF byte > old THEN byte ELSE old

Quiet == pending = {} /\ \A w \in SweepWorkers : running[w] = Idle

\* main calls PlotLRMap for the next transmitter once the previous call has
\* returned
PlotLRMap ==
    /\ pcT = "sweep" /\ Quiet /\ txAt < Len(tx_site)
    /\ txAt' = txAt + 1
    /\ pending' = Cells
    /\ UNCHANGED <<tileVars, tileHist, mode, tx_site, computed, running>>

\* the cells still to hand out once the unit of cell c has been handed out
RemainingAll(p, c) == p
Remaining(p, c) == p \ {c}

\* a worker takes the unit of a cell
UnitStart(w, c) ==
    /\ pcT = "sweep" /\ running[w] = Idle /\ c \in pending
    /\ running' = [running EXCEPT ![w] = c]
    /\ pending' = Remaining(pending, c)
    /\ UNCHANGED <<tileVars, tileHist, mode, tx_site, computed, txAt>>

\* the unit ends with its write-back; a byte the contour threshold
\* suppresses is not written
UnitWrite(w) ==
    /\ pcT = "sweep" /\ running[w] # Idle
    /\ LET c == running[w]
           byte == computed[tx_site[txAt]][c]
       IN  demSignal' = IF byte = NoByte THEN demSignal
                        ELSE SignalWrite(demSignal, c, Combine(mode, demSignal[c], byte))
    /\ running' = [running EXCEPT ![w] = Idle]
    /\ UNCHANGED <<maxpages, dem, demData, demMask, pcT, loads, ops, tileHist,
                   mode, tx_site, computed, txAt, pending>>

NextSweep ==
    \/ PlotLRMap
    \/ \E w \in SweepWorkers, c \in Cells : UnitStart(w, c)
    \/ \E w \in SweepWorkers : UnitWrite(w)

InitArea ==
    /\ InitWQ /\ InitHist /\ InitANOIdle /\ InitSweep /\ InitCfgIdle
    /\ InitLonIdle /\ InitIoIdle
SweepSpec ==
    InitArea /\ [][NextSweep /\ UNCHANGED <<wqVars, histVars, anoVars, cfgVars,
                                          lonVars, siteVars, ioVars>>]_vars

\* ------------------------------------------------------------------ C12
SweepOver == pcT = "sweep" /\ txAt = MaxTx /\ Quiet
Written(c) == {computed[t][c] : t \in Tx} \ {NoByte}
Strongest(c) ==
    IF Written(c) = {} THEN 0
    ELSE CHOOSE b \in Written(c) : \A o \in Written(c) : o <= b

InitConfig ==
    /\ maxpages \in 0..MaxPages
    /\ hd_mode \in BOOLEAN
    /\ tx_count \in 0..MaxTx
    /\ sites_ok \in BOOLEAN
    /\ pcM = "start"
    /\ valid = "none"
    /\ dem = <<>> /\ demData = <<>> /\ demMask = <<>> /\ demSignal = <<>>
    /\ pcT = "off" /\ loads = 0 /\ ops = 0
    /\ requested = {} /\ dataAtLoad = <<>> /\ lastOp = NoOp /\ crossed = <<>>

\* ValidateCommandLine(sr, options)
ValidateCommandLine(sites, pages, hd) ==
    IF sites = 0 THEN FALSE
    ELSE CASE pages = 1 -> hd
           [] pages \in {4, 9, 16, 25, 36, 49, 64} -> TRUE
           [] OTHER -> FALSE

ValidateCall ==
    /\ pcM # "off" /\ valid = "none"
    /\ valid' = IF ValidateCommandLine(tx_count, maxpages, hd_mode)
                THEN "true" ELSE "false"
    /\ UNCHANGED <<tileVars, tileHist, sweepVars, hd_mode, tx_count, sites_ok, pcM>>

\* main: the checks of the sites
MainSites ==
    /\ pcM = "start"
    /\ pcM' = IF tx_count = 0 \/ ~sites_ok THEN "exited" ELSE "checked"
    /\ UNCHANGED <<tileVars, tileHist, sweepVars, hd_mode, tx_count, sites_ok, valid>>

\* main: the switch on sr.maxpages that sets sr.arraysize or exits
AnyPageOfEight(pages, hd) == pages \in {1, 4, 9, 16, 25, 36, 49, 64}
PagesOk(pages, hd) ==
    CASE pages = 1 -> hd
      [] pages \in {4, 9, 16, 25, 36, 49, 64} -> TRUE
      [] OTHER -> FALSE

MainPages ==
    /\ pcM = "checked"
    /\ pcM' = IF PagesOk(maxpages, hd_mode) THEN "sized" ELSE "exited"
    /\ UNCHANGED <<tileVars, tileHist, sweepVars, hd_mode, tx_count, sites_ok, valid>>

\* main: new ElevationMap(sr)
MainAllocate ==
    /\ pcM = "sized"
    /\ pcM' = "allocated"
    /\ demData' = [c \in Cells |-> NoData]
    /\ demMask' = [c \in Cells |-> 0]
    /\ demSignal' = [c \in Cells |-> 0]
    /\ UNCHANGED <<maxpages, dem, pcT, loads, ops, tileHist, sweepVars, hd_mode,
                   tx_count, sites_ok, valid>>

\* main: the first LoadTopoData
MainLoad ==
    /\ pcM = "allocated"
    /\ pcM' = "loaded"
    /\ dem' = LoadSDF([dem |-> dem, data |-> demData, fatal |-> FALSE], 0).st.dem
    /\ demData' = LoadSDF([dem |-> dem, data |-> demData, fatal |-> FALSE], 0).st.data
    /\ UNCHANGED <<maxpages, demMask, demSignal, pcT, loads, ops, tileHist,
                   sweepVars, hd_mode, tx_count, sites_ok, valid>>

NextConfig == ValidateCall \/ MainSites \/ MainPages \/ MainAllocate \/ MainLoad

InitMain ==
    /\ InitWQ /\ InitHist /\ InitANOIdle /\ InitConfig /\ InitSweepIdle
    /\ InitLonIdle /\ InitIoIdle
ConfigSpec ==
    InitMain /\ [][NextConfig /\ UNCHANGED <<wqVars, histVars, anoVars, lonVars,
                                           siteVars, ioVars>>]_vars

\* ------------------------------------------------------------------ C14
Squares == {k * k : k \in 1..8}
Accepted ==
    /\ tx_count >= 1
    /\ maxpages \in Squares
    /\ maxpages = 1 => hd_mode

\* C14: ValidateCommandLine returns true exactly for the accepted
\* configurations (a transmitter site, maxpages the square of 1..8, 1 only in
\* HD mode), and main allocates the elevation map and loads tiles only for an
\* accepted configuration: for every other one it has not gone past its
\* checks.
InvalidConfigFatal ==
    pcM # "off" =>
        /\ valid # "none" => (valid = "true") = Accepted
        /\ pcM \in {"sized", "allocated", "loaded"} => Accepted
        /\ ~Accepted => DOMAIN demData = {} /\ Len(dem) = 0

\* maxpages = 1 without HD mode: ValidateCommandLine has returned false and
\* main has exited with no elevation map
InvalidConfigFatalWitness ==
    /\ pcM = "exited" /\ valid = "false"
    /\ tx_count >= 1 /\ sites_ok /\ maxpages = 1 /\ ~hd_mode
    /\ DOMAIN demData = {}

\* ---- Utilities::LonDiff ----
FullCircle == 360
Longitudes == 0..(FullCircle - 1)

InitLon ==
    /\ lon1 \in Longitudes /\ lon2 \in Longitudes /\ diff = 0 /\ pcL = "call"
    /\ hasLine = FALSE /\ line = 0 /\ lon = 0 /\ pcQ = "off"

\* the signed shortest angular distance from lon2 to lon1
LonDiffOpenAbove(a, b) ==
    LET d == a - b
    IN  IF d <= -(FullCircle \div 2) THEN d + FullCircle
        ELSE IF d >= FullCircle \div 2 THEN d - FullCircle
        ELSE d
LonDiff(a, b) ==
    LET d == a - b
    IN  IF d <= -(FullCircle \div 2) THEN d + FullCircle
        ELSE IF d > FullCircle \div 2 THEN d - FullCircle
        ELSE d

LonDiffCall ==
    /\ pcL = "call"
    /\ diff' = LonDiff(lon1, lon2)
    /\ pcL' = "done"
    /\ UNCHANGED <<tileVars, tileHist, sweepVars, cfgVars, lon1, lon2, siteVars>>

InitAngle ==
    /\ InitWQ /\ InitHist /\ InitANOIdle /\ InitTileIdle /\ InitSweepIdle
    /\ InitCfgIdle /\ InitLon /\ InitIoIdle
LonSpec ==
    InitAngle /\ [][LonDiffCall /\ UNCHANGED <<wqVars, histVars, anoVars, ioVars>>]_vars

LinesRead == (-MaxLonRead)..MaxLonRead
NotRead == 361

InitSite ==
    /\ hasLine \in BOOLEAN /\ line \in LinesRead /\ lon = 0 /\ pcQ = "start"
    /\ lon1 = 0 /\ lon2 = 0 /\ diff = 0 /\ pcL = "off"

\* lon = ReadBearing(line); if (lon < 0.0) lon += 360.0;
Normalize(v) == IF v < 0 THEN v + FullCircle ELSE v

LoadQTH ==
    /\ pcQ = "start"
    /\ lon' = Normalize(IF hasLine THEN line ELSE NotRead)
    /\ pcQ' = "loaded"
    /\ UNCHANGED <<tileVars, tileHist, sweepVars, cfgVars, lonVars, hasLine, line>>

InitQTH ==
    /\ InitWQ /\ InitHist /\ InitANOIdle /\ InitTileIdle /\ InitSweepIdle
    /\ InitCfgIdle /\ InitSite /\ InitIoIdle
SiteSpec ==
    InitQTH /\ [][LoadQTH /\ UNCHANGED <<wqVars, histVars, anoVars, ioVars>>]_vars

\* ------------------------------------------------------------------ C16
\* C16: after LoadQTH the longitude of the site is in [0, 360) for every
\* longitude value read from the file, a negative value L being stored as
\* L + 360.
SiteLonNormalized ==
    (pcQ = "loaded" /\ hasLine) =>
        /\ 0 <= lon /\ lon < 360
        /\ line < 0 => lon = line + 360

\* ------------------------------------------------------------------ C17
Holders(d, c) == {i \in 1..Len(d) : d[i] = TileOf(c)}

\* C17: after every step no two slots of the store hold the same tile, so at
\* most one loaded tile contains a coordinate; and a LoadSDF of a tile that
\* is already loaded returns 0 and leaves the tiles as they were.
TileUnique ==
    [][/\ \A c \in Coords : Cardinality(Holders(dem', c)) <= 1
       /\ (lastOp'.name = "LoadSDF" /\ loads' = loads + 1
             /\ lastOp'.cell \in Range(dem))
            => (lastOp'.ret = 0 /\ dem' = dem /\ demData' = demData)]_vars

\* LoadSDF was called a second time for a tile and returned 0, the tile
\* being held once
TileUniqueWitness ==
    /\ lastOp.name = "LoadSDF" /\ lastOp.ret = 0 /\ loads = 2 /\ pcT = "load"
    /\ Cardinality({i \in 1..Len(dem) : dem[i] = lastOp.cell}) = 1

\* ------------------------------------------------------------------ C18
\* C18 as stated: a loaded cell keeps the elevation its tile's file gave it
\* for the rest of the run.
ElevationImmutable ==
    \A c \in Cells : dataAtLoad[c] # NoData => demData[c] = dataAtLoad[c]

\* C18, amended: the user-defined-terrain loader is the one operation after
\* a load that changes elevations, and it only raises the elevation of cells
\* of loaded tiles; every other step (a further load, a mask or signal
\* write, a marker, a path) leaves the elevation of every loaded cell as it
\* was.
ElevationFixedAfterUDT ==
    [][/\ lastOp'.name # "LoadUDT" =>
            \A c \in Cells : demData[c] # NoData => demData'[c] = demData[c]
       /\ lastOp'.name = "LoadUDT" =>
            \A c \in Cells : /\ demData'[c] >= demData[c]
                             /\ demData[c] = NoData => demData'[c] = NoData]_vars

\* LoadUDT raised a loaded cell by the height of a feature, and an
\* operation of the run took place afterwards leaving it so
ElevationFixedAfterUDTWitness ==
    /\ pcT = "run" /\ ops >= 1
    /\ \E c \in Cells :
         dataAtLoad[c] # NoData /\ demData[c] = dataAtLoad[c] + UdtHeight

\* ------------------------------------------------------------------ C19
PointWrites == {"PutMask", "OrMask", "PutSignal", "PlaceMarker"}

\* C19: a PutMask, OrMask, PutSignal or PlaceMarker at a coordinate that
\* lies in no loaded tile returns with the run going on, and the elevation,
\* mask and signal planes are as they were before it.
OutsideIsNoOp ==
    [][(/\ lastOp'.name \in PointWrites /\ ops' = ops + 1
        /\ FindDEM(dem, lastOp'.cell) = NotFound)
         => /\ pcT' = "run"
            /\ demData' = demData /\ demMask' = demMask /\ demSignal' = demSignal
            /\ dem' = dem]_vars

\* after a mask bit was set in a loaded tile, a write at a coordinate
\* outside every loaded tile has returned
OutsideIsNoOpWitness ==
    /\ pcT = "run" /\ ops = 2
    /\ lastOp.name \in PointWrites /\ FindDEM(dem, lastOp.cell) = NotFound
    /\ \E c \in Cells : demMask[c] # 0

MilesPerSample == 3
StoresRead == {<<>>, <<0>>, AllTiles}

InitPath ==
    /\ maxpages = 4
    /\ dem \in StoresRead
    /\ demData = [c \in Cells |-> IF TileOf(c) \in Range(dem) THEN SdfHeight ELSE NoData]
    /\ demMask = [c \in Cells |-> 0]
    /\ demSignal = [c \in Cells |-> 0]
    /\ pcT = "off" /\ loads = 0 /\ ops = 0
    /\ requested = {} /\ dataAtLoad = demData /\ lastOp = NoOp
    /\ crossed = [c \in Cells |-> {}]
    /\ source \in Coords /\ destination \in Coords
    /\ arraysize \in 1..MaxPath
    /\ path = <<>>
    /\ pcP = "call"

Toward(src, dst) == IF dst > src THEN 1 ELSE IF dst < src THEN -1 ELSE 0
Steps(src, dst) == IF dst >= src THEN dst - src ELSE src - dst

\* the distance recorded with sample i (0-based) at coordinate at
DistanceOfCell(at, i) == at * MilesPerSample
DistanceAt(at, i) == i * MilesPerSample

Sample(src, dst, i) ==
    LET at == src + Toward(src, dst) * i
    IN  [at |-> at,
         elevation |-> IF FindDEM(dem, at) = NotFound THEN NoData ELSE demData[at],
         distance |-> DistanceAt(at, i)]

\* coinciding sites give one sample, or none when single is FALSE
ReadPathLength(src, dst, size, single) ==
    IF src = dst THEN (IF single THEN 1 ELSE 0)
    ELSE IF Steps(src, dst) + 1 <= size THEN Steps(src, dst) + 1 ELSE size

ReadPath(single) ==
    /\ pcP = "call"
    /\ path' = [i \in 1..ReadPathLength(source, destination, arraysize, single)
                  |-> Sample(source, destination, i - 1)]
    /\ pcP' = "done"
    /\ UNCHANGED <<source, destination, arraysize>>

NextPath == \E single \in BOOLEAN : ReadPath(single)

InitSampler ==
    /\ InitWQ /\ InitHist /\ InitANOIdle /\ InitPath /\ InitSweepIdle
    /\ InitCfgIdle /\ InitLonIdle /\ InitFileIdle
PathSpec ==
    InitSampler /\ [][NextPath /\ UNCHANGED <<wqVars, histVars, anoVars, tileVars,
                                            tileHist, sweepVars, cfgVars, lonVars,
                                            siteVars, fileVars>>]_vars

\* ------------------------------------------------------------------ C21
\* C21: after ReadPath the first sample, if there is one, lies at the source
\* with distance 0, the distances never decrease from one sample to the
\* next, and the samples fit the buffer.
PathAscending ==
    pcP = "done" =>
        /\ Len(path) >= 1 => (path[1].at = source /\ path[1].distance = 0)
        /\ \A i \in 1..(Len(path) - 1) : path[i].distance <= path[i + 1].distance
        /\ Len(path) <= arraysize

\* a path of three samples towards lower coordinates: the coordinates fall
\* while the distances rise
PathAscendingWitness ==
    /\ pcP = "done" /\ Len(path) = 3 /\ destination < source
    /\ path[1].distance < path[3].distance

\* ---- Lrp::ReadLRParm ----
\* Real values are held in thousandths.  The .lrp file is described by the
\* number of leading lines that parse (the next line is missing or is not a
\* number) and by whether its ERP line is written in dBm.
Parameters == <<"eps_dielect", "sgm_conductivity", "eno_ns_surfref", "frq_mhz",
                "radio_climate", "pol", "conf", "rel", "erp">>
Names == {Parameters[k] : k \in 1..Len(Parameters)}
Place(p) == CHOOSE k \in 1..Len(Parameters) : Parameters[k] = p
Required == 8
NotForced == -1000
MinFreq == 20000
MaxFreq == 20000000
DbmReference == 32140
Zeroed == [p \in Names |-> 0]
HardCoded ==
    [eps_dielect |-> 15000, sgm_conductivity |-> 5, eno_ns_surfref |-> 301000,
     frq_mhz |-> 300000, radio_climate |-> 5, pol |-> 0, conf |-> 500,
     rel |-> 500, erp |-> 0]
\* the numbers on the lines of the file
FileValues(f) ==
    [eps_dielect |-> 12000, sgm_conductivity |-> 3, eno_ns_surfref |-> 290000,
     frq_mhz |-> 850000, radio_climate |-> 3, pol |-> 1, conf |-> 500,
     rel |-> 950, erp |-> IF f.dBm THEN 62140 ELSE 500000]
ForcedErps == {NotForced, 0, 2500000}
ForcedFreqs == {0, MinFreq, 1800000, 30000000}

InitLrp ==
    /\ infile \in [open : BOOLEAN, lines : 0..Len(Parameters), dBm : BOOLEAN]
    /\ infile.open = FALSE => (infile.lines = 0 /\ infile.dBm = FALSE)
    /\ infile.dBm => infile.lines = Len(Parameters)
    /\ forced_read \in {0, 1}
    /\ forced_erp \in ForcedErps
    /\ forced_freq \in ForcedFreqs
    /\ lrp = Zeroed
    /\ return_value = 0
    /\ loadPat \in BOOLEAN
    /\ splat_lrp = FALSE
    /\ pcR = "call"

RECURSIVE Pow10(_)
Pow10(n) == IF n <= 0 THEN 1 ELSE 10 * Pow10(n - 1)
\* pow(10.0, (erp - 32.14) / 10.0), for the values that give a whole power
DbmToWatts(e) == Pow10((e - DbmReference) \div 10000) * 1000

\* lines 82-208: each required parameter is read while ok holds
ReadLines(f) ==
    [p \in Names |->
        IF Place(p) <= Required
        THEN IF Place(p) <= f.lines THEN FileValues(f)[p] ELSE 0
        ELSE IF f.lines < Len(Parameters) THEN 0
             ELSE IF f.dBm THEN DbmToWatts(FileValues(f)[p]) ELSE FileValues(f)[p]]
Parsed(f) == f.lines >= Required
\* lines 212-216
Forced(v) ==
    [v EXCEPT !.erp = IF forced_erp # NotForced THEN forced_erp ELSE @,
              !.frq_mhz = IF forced_freq >= MinFreq /\ forced_freq <= MaxFreq
                          THEN forced_freq ELSE @]
\* infile.is_open() at line 224: a stream that had been opened was closed at
\* line 210, and one that failed to open is not open either
IsOpenAtFallback(f) == IF f.open THEN FALSE ELSE f.open

ReadLRParm ==
    /\ pcR = "call"
    /\ LET ok == IF infile.open THEN Parsed(infile) ELSE TRUE
           afterFile == IF infile.open THEN Forced(ReadLines(infile)) ELSE Zeroed
           rvFile == IF infile.open /\ Parsed(infile) THEN 1 ELSE 0
           fallback == ~IsOpenAtFallback(infile) /\ forced_read # 0
           afterFallback == IF fallback THEN HardCoded ELSE afterFile
           rvFallback == IF fallback THEN 1
                         ELSE IF forced_read = 0 THEN 0 ELSE rvFile
           assumed == forced_read # 0 /\ ~ok
       IN  /\ lrp' = IF assumed THEN HardCoded ELSE afterFallback
           /\ return_value' = IF assumed THEN 1 ELSE rvFallback
           /\ loadPat' = IF infile.open /\ ok THEN TRUE ELSE loadPat
           /\ splat_lrp' = fallback
    /\ pcR' = "done"
    /\ UNCHANGED <<infile, forced_read, forced_erp, forced_freq>>

InitParameters ==
    /\ InitWQ /\ InitHist /\ InitANOIdle /\ InitTileIdle /\ InitSweepIdle
    /\ InitCfgIdle /\ InitLonIdle /\ InitPathIdle /\ InitLrp /\ InitUdtIdle
LrpSpec ==
    InitParameters /\ [][ReadLRParm /\ UNCHANGED <<wqVars, histVars, anoVars, tileVars,
                                                  tileHist, sweepVars, cfgVars, lonVars,
                                                  siteVars, pathVars, udtVars>>]_vars

\* ------------------------------------------------------------------ C22
\* C22: after ReadLRParm has returned, erp equals forced_erp whenever
\* forced_erp is not -1, and frq_mhz equals forced_freq whenever forced_freq
\* lies in [20, 20000] MHz, whatever the file held and whether it was found,
\* for forced_read 0 and 1.
ForcedOverridesWin ==
    pcR = "done" =>
        /\ forced_erp # NotForced => lrp.erp = forced_erp
        /\ (forced_freq >= MinFreq /\ forced_freq <= MaxFreq)
               => lrp.frq_mhz = forced_freq

\* ------------------------------------------------------------------ C25
\* C25: the hard-coded defaults are held, and splat.lrp is written, only when
\* loading the file failed under forced_read; when a file was opened and its
\* eight required parameters parsed, the parameters held are those read from
\* it (the forced overrides apart) and no splat.lrp is written, for
\* forced_read 1 as well as 0.
DefaultsOnlyOnFailure ==
    pcR = "done" =>
        /\ splat_lrp => (forced_read # 0 /\ ~(infile.open /\ Parsed(infile)))
        /\ (infile.open /\ Parsed(infile)) =>
              /\ lrp = Forced(ReadLines(infile))
              /\ ~splat_lrp

\* ---- Udt::LoadUDT, the calls it makes ----
\* An entry of the file is the pixel its coordinates round to and its height
\* in metres after rint; the first pass copies the entries with a positive
\* height to the temporary file, the second hands the lines of that file
\* which Unique accepts to AddElevation, in order.
MaxFeatures == 3
FeaturePixels == {0, 1}
FeatureHeights == {0, UdtHeight, UdtHeight + 4}
Features == [pix : FeaturePixels, height : FeatureHeights]

InitUdt ==
    /\ udt_file \in UNION {[1..n -> Features] : n \in 0..MaxFeatures}
    /\ added = <<>>
    /\ pcU = "call"

Positive(e) == e.height > 0
TempFile(file) == SelectSeq(file, Positive)

RECURSIVE Calls(_, _)
Calls(file, i) ==
    IF i > Len(file) THEN <<>>
    ELSE (IF Unique(file, i) THEN <<file[i]>> ELSE <<>>) \o Calls(file, i + 1)

LoadUDTCalls ==
    /\ pcU = "call"
    /\ added' = Calls(TempFile(udt_file), 1)
    /\ pcU' = "done"
    /\ UNCHANGED udt_file

InitFeatures ==
    /\ InitWQ /\ InitHist /\ InitANOIdle /\ InitTileIdle /\ InitSweepIdle
    /\ InitCfgIdle /\ InitLonIdle /\ InitPathIdle /\ InitLrpIdle /\ InitUdt
UdtSpec ==
    InitFeatures /\ [][LoadUDTCalls /\ UNCHANGED <<wqVars, histVars, anoVars, tileVars,
                                                  tileHist, sweepVars, cfgVars, lonVars,
                                                  siteVars, pathVars, lrpVars>>]_vars

Listed(file, p) == {i \in 1..Len(file) : file[i].pix = p /\ file[i].height > 0}
CallsFor(p) == {k \in 1..Len(added) : added[k].pix = p}
Highest(file, p) ==
    CHOOSE h \in {file[i].height : i \in Listed(file, p)} :
        \A i \in Listed(file, p) : file[i].height <= h

\* ------------------------------------------------------------------ C23
\* C23: a cell the file lists more than once with positive heights gets
\* exactly one AddElevation call, with the greatest of the listed heights, in
\* whatever order the entries stand.
DuplicatesKeepMaximum ==
    pcU = "done" =>
        \A p \in FeaturePixels :
            Cardinality(Listed(udt_file, p)) > 1 =>
                /\ Cardinality(CallsFor(p)) = 1
                /\ \A k \in CallsFor(p) : added[k].height = Highest(udt_file, p)

\* ------------------------------------------------------------------ C26
\* C26: an entry with a positive height whose cell no other entry of the file
\* names gets exactly one AddElevation call, with its height, wherever it
\* stands in the file and however many entries the file has.
UniqueFeaturesApplied ==
    pcU = "done" =>
        \A i \in 1..Len(udt_file) :
            (/\ udt_file[i].height > 0
             /\ \A j \in 1..Len(udt_file) : j # i => udt_file[j].pix # udt_file[i].pix)
            => /\ Cardinality(CallsFor(udt_file[i].pix)) = 1
               /\ \A k \in CallsFor(udt_file[i].pix) :
                      added[k].height = udt_file[i].height

\* ------------------------------------------------------- specifications
\* The specifications differ in what is observed only: each runs the whole
\* program and keeps the history its properties read; the rest of the
\* history stays as it was initially.
Next == Step /\ ObsRuns /\ ObsSubmit /\ ObsShutdown
             /\ UNCHANGED <<orderVars, pressureVars, anoVars, restVars>>
Spec == Init /\ [][Next]_vars

NextOrder == Step /\ ObsRuns /\ ObsSubmit /\ ObsOrder
                  /\ UNCHANGED <<pressureVars, shutdownVars, anoVars, restVars>>
OrderSpec == Init /\ [][NextOrder]_vars

NextPressure == Step /\ ObsPressure
                     /\ UNCHANGED <<runVars, submitVars, orderVars, shutdownVars, anoVars,
                                     restVars>>
PressureSpec == Init /\ [][NextPressure]_vars

\* Every thread that can take a step of the call it is in eventually takes
\* it, also when the step needs m_mutex and other threads keep taking it,
\* and every job body returns.  A spurious wake-up is possible but never
\* owed, and no client is obliged to make a further call.
NextProgram == Step /\ UNCHANGED <<histVars, anoVars, restVars>>
Unobserved(A) == A /\ UNCHANGED <<histVars, anoVars, restVars>>
FairSpec ==
    /\ Init
    /\ [][NextProgram]_vars
    /\ \A w \in Workers : SF_vars(Unobserved(doWork(w)))
    /\ \A c \in Clients : SF_vars(Unobserved(submit(c)))
    /\ SF_vars(Unobserved(abort))
    /\ SF_vars(Unobserved(waitForCompletion))

\* A queue built by WorkQueue(numWorkers), its work list empty, that a single
\* thread (the Owner) feeds with submit(job, true) only.
InitEmpty == Init /\ m_work = <<>>
OneBlockingSubmitter == \A c \in Calling : c = Owner /\ blocking'[c]
NextBacklog == NextProgram /\ OneBlockingSubmitter
BacklogSpec == InitEmpty /\ [][NextBacklog]_vars

\* ------------------------------------------------------------- properties

\* C1: when waitForCompletion() returns (no abort() having been called),
\* every job whose submit() had returned before waitForCompletion() was
\* called has been executed exactly once, and no job has run twice.
Draining ==
    (wfcReturned /\ ~abortCalled) =>
        /\ \A j \in atWait : completions[j] = 1
        /\ \A j \in Jobs : completions[j] <= 1
DrainingWitness ==
    /\ wfcReturned /\ ~abortCalled
    /\ Cardinality(atWait) >= 2
    /\ \A j \in atWait : completions[j] = 1

\* C2: once abort() has been called it eventually returns, whatever the
\* workers were doing.
AbortReturnsEventually ==
    (pcC[Owner] \in {"a_finish", "a_notify", "a_join", "a_clear"})
        ~> (pcC[Owner] \in {"idle", "destroyed"})

\* C3: once waitForCompletion() has been called it eventually returns.
WaitReturnsEventually ==
    (pcC[Owner] \in {"w_finish", "w_notify", "w_join"}) ~> (pcC[Owner] = "idle")

\* C4: when abort() returns no worker is inside a job and the work list is
\* empty; every job that had started has completed, and no job starts
\* after the return.
AbortQuiesces ==
    abortReturned =>
        /\ atAbortRet.work = <<>>
        /\ atAbortRet.busy = {}
        /\ Busy = {}
        /\ \A j \in atAbortRet.started : completions[j] >= 1
        /\ started = atAbortRet.started
AbortQuiescesWitness ==
    /\ abortReturned
    /\ atAbortRet.started # {}
    /\ queuedAtDtor \ taken # {}

\* C5: a job that is in the work list when the destructor runs, with no
\* waitForCompletion() before it, is never executed.
DtorDropsQueued ==
    (inDtor /\ ~wfcCalled) => queuedAtDtor \cap started = {}

\* C6: a job handed to submit() after abort() or waitForCompletion() was
\* called is never enqueued and never executed, and the call does not wait.
LateSubmitIsNoOp ==
    \A j \in late :
        /\ j \notin Range(m_work)
        /\ j \notin taken
        /\ j \notin started
        /\ \A c \in Clients :
              job[c] = j => pcC[c] \notin {"s_wait", "s_woken", "s_add"}
LateSubmitWitness ==
    \E j \in late : j \in returned /\ m_work # <<>>

\* C7: a submit(job, true) that found the work list at least as long as
\* the number of workers returns, its job enqueued, only after some worker
\* has finished a job since the call began.
Backpressure ==
    \A c \in Clients :
        (mustWait[c] /\ pcC[c] = "idle") => finishedSince[c]

\* C8: a worker inside a job body does not hold m_mutex.
NoLockInJob ==
    \A w \in Workers : pcW[w] \in {"popped", "work"} => m_mutex # w
NoLockInJobWitness ==
    \E w \in Workers : pcW[w] = "work" /\ m_mutex \in (Workers \cup Clients) \ {w}

\* C9 as stated: if submit(A) returned before submit(B) was called, B's
\* body does not start before A's.
FifoStart ==
    \A b \in started : before[b] \subseteq started

\* C9 amended: jobs leave the work list in submission order for any number
\* of workers, and with a single worker they also start in that order.
SingleWorker == \A w \in Workers : w > 1 => pcW[w] = "none"
FifoTake ==
    /\ \A b \in taken : before[b] \subseteq taken
    /\ SingleWorker => FifoStart
FifoTakeWitness ==
    \E b \in started : \E a \in before[b] : a \in taken /\ a \notin started

\* C10: every byte passed to PutSignal is in 0..255 and is the mode's
\* transform of the data line's value clamped to 0..255 (0 below 0, 255
\* above 255), rounded to a nearest integer.
ClampByte(t) == IF t < 0 THEN 0 ELSE IF t > 255 THEN 255 ELSE t
NearestInts(x) == {n \in ((x \div Scale) - 1)..((x \div Scale) + 1) :
                      2 * (IF n * Scale < x THEN x - n * Scale ELSE n * Scale - x) <= Scale}
Magnitude(x) == IF x < 0 THEN -x ELSE x
Expected(x) ==
    IF erp = 0
    THEN IF Magnitude(x) > 255 * Scale THEN {255} ELSE NearestInts(Magnitude(x))
    ELSE {ClampByte((IF dbm THEN 200 ELSE 100) + n) : n \in NearestInts(x)}
SignalClamped ==
    \A i \in 1..Len(signal) : signal[i] \in 0..255 /\ signal[i] \in Expected(record)
SignalClampedWitness ==
    /\ ~good /\ erp # 0 /\ dbm
    /\ record > 60 * Scale
    /\ signal = <<255>>

\* C24: once abort() has been called no worker takes a further job from the
\* work list, whatever the workers were doing at the time of the call.
NoTakeAfterAbort == [][abortCalled => taken' = taken]_vars

\* C27: while no shutdown has been requested, a job that submit() has put in
\* the work list is eventually started by a worker, every job body
\* terminating.
Running(j) == \E w \in Workers : pcW[w] = "work" /\ work[w] = j
NoLostWakeup ==
    \A j \in Jobs : (j \in Range(m_work)) ~> (Running(j) \/ m_exit)
\* the last job, which a client submitted, runs on a live queue while the
\* other worker sleeps in m_signalWaiting.wait
NoLostWakeupWitness ==
    /\ ~m_exit /\ Running(MaxJobs)
    /\ \E w \in Workers : pcW[w] = "wait"

\* C28: on a queue that started with an empty work list and is fed by one
\* thread with blocking submits only, the jobs queued and not yet taken by a
\* worker never outnumber the workers the queue was built with.
Built == Cardinality({w \in Workers : pcW[w] # "none"})
BoundedBacklog == Len(m_work) <= Built

\* C29: a submit(job, true) that has been called eventually returns, job
\* bodies terminating and every thread being scheduled fairly, also when
\* abort() or waitForCompletion() is called while the submitter is suspended.
InSubmit(c) == pcC[c] \in {"s_lock", "s_check", "s_wait", "s_woken", "s_add"}
BlockedSubmitReturns ==
    \A c \in Clients : (InSubmit(c) /\ blocking[c]) ~> (pcC[c] = "idle")

\* C30: once an abort() or a waitForCompletion() has returned, a further
\* abort(), waitForCompletion() or destructor finds no worker left to join,
\* no job is taken or started any more, no submit gets past its first test,
\* and the work list is empty whenever such a call returns.
ShutdownIdempotent ==
    [][(abortReturned \/ wfcReturned) =>
          /\ m_workers = 0
          /\ taken' = taken /\ started' = started
          /\ \A c \in Clients :
                pcC[c] = "s_check" => pcC'[c] \in {"s_check", "idle"}
          /\ (AbortReturns \/ WfcReturns) => m_work' = <<>>]_vars
\* both kinds of call have returned, one after the other, a job having run
\* before the first of them
ShutdownIdempotentWitness ==
    /\ abortReturned /\ wfcReturned
    /\ pcC[Owner] \in {"idle", "destroyed"}
    /\ started # {} /\ m_work = <<>>
====
